---- MODULE Spec2Model ----
(***************************************************************************)
(* Model of the IPMI power gateway (src/src/main.rs): an axum service that *)
(* resolves a bearer token to an endpoint, runs ipmitool through `sh -c`,  *)
(* classifies the tool's exit status and text, and answers over HTTP.      *)
(*                                                                         *)
(* Tokens, endpoint names and request bodies are only ever compared for    *)
(* equality by the code, so they are TLA+ strings.  Text the code formats, *)
(* searches or trims (endpoint fields, the command line, stdout, stderr)   *)
(* is a sequence of one-character strings.                                 *)
(***************************************************************************)
EXTENDS Integers, Sequences, FiniteSets, TLC

(***************************************************************************)
(* Bounds of the model.                                                    *)
(***************************************************************************)
\* worker threads of the tokio runtime (one per CPU core of the host)
Workers == 2
\* groups in a generated configuration
MaxGroups == 2
\* endpoints in a generated group
MaxEndpoints == 2
\* pieces concatenated into a generated stderr
MaxErrPieces == 2
\* pieces concatenated into the body of a generated stdout
MaxOutPieces == 2
\* whitespace characters put before, and put after, the body of a generated
\* stdout
MaxPad == 1
\* characters in a generated endpoint field
MaxFieldLen == 1

\* request slots: one more connection than there are worker threads
Reqs == 1..(Workers + 1)

(***************************************************************************)
(* String literals of the source, as character sequences.                  *)
(***************************************************************************)
\* "Command not supported in present state"
ErrCommandNotSupported ==
    <<"C", "o", "m", "m", "a", "n", "d", " ", "n", "o", "t", " ", "s", "u", "p",
    "p", "o", "r", "t", "e", "d", " ", "i", "n", " ", "p", "r", "e", "s", "e",
    "n", "t", " ", "s", "t", "a", "t", "e">>

\* "Invalid user name"
ErrInvalidUserName ==
    <<"I", "n", "v", "a", "l", "i", "d", " ", "u", "s", "e", "r", " ", "n", "a",
    "m", "e">>

\* "authentication failure"
ErrAuthenticationFailure ==
    <<"a", "u", "t", "h", "e", "n", "t", "i", "c", "a", "t", "i", "o", "n", " ",
    "f", "a", "i", "l", "u", "r", "e">>

\* "Unable to establish IPMI v2 / RMCP+ session"
ErrUnableToEstablish ==
    <<"U", "n", "a", "b", "l", "e", " ", "t", "o", " ", "e", "s", "t", "a", "b",
    "l", "i", "s", "h", " ", "I", "P", "M", "I", " ", "v", "2", " ", "/", " ",
    "R", "M", "C", "P", "+", " ", "s", "e", "s", "s", "i", "o", "n">>

\* "Invalid command"
ErrInvalidCommand ==
    <<"I", "n", "v", "a", "l", "i", "d", " ", "c", "o", "m", "m", "a", "n",
    "d">>

\* "Chassis Power is on"
OutPowerIsOn ==
    <<"C", "h", "a", "s", "s", "i", "s", " ", "P", "o", "w", "e", "r", " ", "i",
    "s", " ", "o", "n">>

\* "Chassis Power is off"
OutPowerIsOff ==
    <<"C", "h", "a", "s", "s", "i", "s", " ", "P", "o", "w", "e", "r", " ", "i",
    "s", " ", "o", "f", "f">>

\* "Chassis Power Control: Up/On"
OutControlUpOn ==
    <<"C", "h", "a", "s", "s", "i", "s", " ", "P", "o", "w", "e", "r", " ", "C",
    "o", "n", "t", "r", "o", "l", ":", " ", "U", "p", "/", "O", "n">>

\* "Chassis Power Control: Down/Off"
OutControlDownOff ==
    <<"C", "h", "a", "s", "s", "i", "s", " ", "P", "o", "w", "e", "r", " ", "C",
    "o", "n", "t", "r", "o", "l", ":", " ", "D", "o", "w", "n", "/", "O", "f",
    "f">>

\* "Chassis Power Control: Reset"
OutControlReset ==
    <<"C", "h", "a", "s", "s", "i", "s", " ", "P", "o", "w", "e", "r", " ", "C",
    "o", "n", "t", "r", "o", "l", ":", " ", "R", "e", "s", "e", "t">>

\* "Chassis Power Control: Cycle"
OutControlCycle ==
    <<"C", "h", "a", "s", "s", "i", "s", " ", "P", "o", "w", "e", "r", " ", "C",
    "o", "n", "t", "r", "o", "l", ":", " ", "C", "y", "c", "l", "e">>

\* "Chassis Power Control: Soft"
OutControlSoft ==
    <<"C", "h", "a", "s", "s", "i", "s", " ", "P", "o", "w", "e", "r", " ", "C",
    "o", "n", "t", "r", "o", "l", ":", " ", "S", "o", "f", "t">>

\* "Chassis Power Control: On"
OutControlOn ==
    <<"C", "h", "a", "s", "s", "i", "s", " ", "P", "o", "w", "e", "r", " ", "C",
    "o", "n", "t", "r", "o", "l", ":", " ", "O", "n">>

\* "Chassis Power Control: Off"
OutControlOff ==
    <<"C", "h", "a", "s", "s", "i", "s", " ", "P", "o", "w", "e", "r", " ", "C",
    "o", "n", "t", "r", "o", "l", ":", " ", "O", "f", "f">>

\* "ipmitool -I lanplus -H "
CmdPrefix ==
    <<"i", "p", "m", "i", "t", "o", "o", "l", " ", "-", "I", " ", "l", "a", "n",
    "p", "l", "u", "s", " ", "-", "H", " ">>

\* " -U "
CmdUser ==
    <<" ", "-", "U", " ">>

\* " -P '"
CmdPass ==
    <<" ", "-", "P", " ", "'">>

\* "' power "
CmdPower ==
    <<"'", " ", "p", "o", "w", "e", "r", " ">>

(***************************************************************************)
(* Helpers for sequences and text.                                         *)
(***************************************************************************)
SeqsUpTo(S, n) == UNION {[1..k -> S] : k \in 0..n}

Min(S) == CHOOSE x \in S : \A y \in S : x <= y

RECURSIVE Concat(_)
Concat(ss) == IF ss = <<>> THEN <<>> ELSE Head(ss) \o Concat(Tail(ss))

\* a byte of process output that is not valid UTF-8, and U+FFFD
InvalidByte == "<FF>"
ReplacementChar == "<U+FFFD>"

\* String::from_utf8_lossy: invalid bytes become the replacement character
from_utf8_lossy(bytes) ==
    [i \in 1..Len(bytes) |->
        IF bytes[i] = InvalidByte THEN ReplacementChar ELSE bytes[i]]

\* the characters of the model that carry the Unicode White_Space property
WhiteSpace == {" ", "\t", "\n", "\r"}

RECURSIVE trim_start(_)
trim_start(s) ==
    IF s # <<>> /\ Head(s) \in WhiteSpace THEN trim_start(Tail(s)) ELSE s

RECURSIVE trim_end(_)
trim_end(s) ==
    IF s # <<>> /\ s[Len(s)] \in WhiteSpace
    THEN trim_end(SubSeq(s, 1, Len(s) - 1))
    ELSE s

\* a trim of the leading whitespace only
trim_leading_only(s) == trim_start(s)

\* str::trim
trim(s) == trim_end(trim_start(s))

\* str::contains with a string pattern
contains(s, pat) ==
    \/ pat = <<>>
    \/ \E i \in 1..(Len(s) - Len(pat) + 1) :
          /\ s[i] = pat[1]
          /\ SubSeq(s, i, i + Len(pat) - 1) = pat

(***************************************************************************)
(* Data model.  An Option is a sequence of length at most one.             *)
(***************************************************************************)
IpmiEndpoint(name, ipmi_address, username, password) ==
    [name |-> name, ipmi_address |-> ipmi_address,
     username |-> username, password |-> password]

Group(name, token, endpoints) ==
    [name |-> name, token |-> token, endpoints |-> endpoints]

Config(groups) == [listen_port |-> 8080, groups |-> groups]

PowerControlMsg(action) == [action |-> action]

PowerActions == {"On", "Off", "Reset", "Cycle", "Status"}
PowerStatuses == {"On", "Off", "Reset", "Cycle"}
PowerErrors ==
    {"CommandNotSupported", "InvalidState", "AuthenticationFailed",
     "ConnectionFailed", "UnexpectedOutput", "UnknownError"}

\* Result<PowerStatus, PowerError>
Ok(status) == [ok |-> TRUE, val |-> status]
Err(error) == [ok |-> FALSE, val |-> error]

\* an HTTP response: status code and body; a body is <<"text", ...>> for
\* plain text, <<"json", key, value>> for a one-member JSON object
Response(status, body) == [status |-> status, body |-> body]

\* std::process::Output
Output(success, stdout, stderr) ==
    [success |-> success, stdout |-> stdout, stderr |-> stderr]

(***************************************************************************)
(* Authorization resolver.                                                 *)
(***************************************************************************)
\* a lookup that falls back to the first group when no token is equal
get_group_by_token_or_first(cfg, token) ==
    LET hits == {i \in 1..Len(cfg.groups) : cfg.groups[i].token = token}
    IN  IF hits = {}
        THEN IF cfg.groups = <<>> THEN <<>> ELSE <<cfg.groups[1]>>
        ELSE <<cfg.groups[Min(hits)]>>

\* a lookup that returns the last group whose token is equal
get_group_by_token_last(cfg, token) ==
    LET hits == {i \in 1..Len(cfg.groups) : cfg.groups[i].token = token}
    IN  IF hits = {} THEN <<>>
        ELSE <<cfg.groups[CHOOSE i \in hits : \A j \in hits : j <= i]>>

\* Config::get_group_by_token: the first group whose token is equal
get_group_by_token(cfg, token) ==
    LET hits == {i \in 1..Len(cfg.groups) : cfg.groups[i].token = token}
    IN  IF hits = {} THEN <<>> ELSE <<cfg.groups[Min(hits)]>>

\* group.endpoints.iter().find(|e| e.name == endpoint_id)
find_endpoint(group, endpoint_id) ==
    LET hits == {i \in 1..Len(group.endpoints) :
                    group.endpoints[i].name = endpoint_id}
    IN  IF hits = {} THEN <<>> ELSE <<group.endpoints[Min(hits)]>>

\* Result<&IpmiEndpoint, Response>: endpoint is Some exactly when ok
get_endpoint_from_token(cfg, token, endpoint_id) ==
    LET group == get_group_by_token(cfg, token)
    IN  IF group = <<>>
        THEN [ok |-> FALSE, endpoint |-> <<>>,
              response |-> Response(401, <<"text", "Invalid token">>)]
        ELSE LET e == find_endpoint(group[1], endpoint_id)
             IN  IF e = <<>>
                 THEN [ok |-> FALSE, endpoint |-> <<>>,
                       response |-> Response(404,
                           <<"text", "Endpoint '", endpoint_id, "' not found">>)]
                 ELSE [ok |-> TRUE, endpoint |-> e,
                       response |-> Response(200, <<"text", "">>)]

(***************************************************************************)
(* Command invoker.                                                        *)
(***************************************************************************)
\* a match that ignores the case of the action text
parse_action_any_case(text) ==
    CASE text \in {"on", "ON"} -> <<"On">>
      [] text = "off" -> <<"Off">>
      [] text = "reset" -> <<"Reset">>
      [] text = "cycle" -> <<"Cycle">>
      [] OTHER -> <<>>

\* match payload.action.as_str() in power_control: Some(action) or None
parse_action(text) ==
    CASE text = "on" -> <<"On">>
      [] text = "off" -> <<"Off">>
      [] text = "reset" -> <<"Reset">>
      [] text = "cycle" -> <<"Cycle">>
      [] OTHER -> <<>>

action_str(action) ==
    CASE action = "On" -> <<"o", "n">>
      [] action = "Off" -> <<"o", "f", "f">>
      [] action = "Reset" -> <<"r", "e", "s", "e", "t">>
      [] action = "Cycle" -> <<"c", "y", "c", "l", "e">>
      [] action = "Status" -> <<"s", "t", "a", "t", "u", "s">>

\* format!("ipmitool -I lanplus -H {} -U {} -P '{}' power {}", ...)
command_line(action, endpoint) ==
    CmdPrefix \o endpoint.ipmi_address \o CmdUser \o endpoint.username
        \o CmdPass \o endpoint.password \o CmdPower \o action_str(action)

(***************************************************************************)
(* What `sh -c command` runs.  The scanner covers the part of the shell    *)
(* grammar that the modelled characters can produce: blanks separate       *)
(* words, ';' ends a command, single quotes quote literally.  A word in    *)
(* progress is an Option.  An unterminated quote or an empty command       *)
(* before ';' is a syntax error, and then the shell runs nothing.          *)
(***************************************************************************)
ShError == [err |-> TRUE, cmds |-> <<>>]

RECURSIVE sh_scan(_, _, _, _, _, _)
sh_scan(s, i, quoted, word, cmd, cmds) ==
    IF i > Len(s)
    THEN IF quoted
         THEN ShError
         ELSE [err |-> FALSE,
               cmds |-> IF cmd \o word = <<>> THEN cmds
                        ELSE Append(cmds, cmd \o word)]
    ELSE LET c == s[i]
         IN  IF c = "'"
             THEN sh_scan(s, i + 1, ~quoted,
                          IF word = <<>> THEN << <<>> >> ELSE word, cmd, cmds)
             ELSE IF quoted \/ c \notin {" ", ";"}
             THEN sh_scan(s, i + 1, quoted,
                          IF word = <<>> THEN << <<c>> >>
                          ELSE <<Append(word[1], c)>>, cmd, cmds)
             ELSE IF c = " "
             THEN sh_scan(s, i + 1, FALSE, <<>>, cmd \o word, cmds)
             ELSE IF cmd \o word = <<>>
             THEN ShError
             ELSE sh_scan(s, i + 1, FALSE, <<>>, <<>>,
                          Append(cmds, cmd \o word))

\* Command::new("sh").arg("-c").arg(&command): the commands the shell runs,
\* each an argument vector
sh_c(command) == sh_scan(command, 1, FALSE, <<>>, <<>>, <<>>)

(***************************************************************************)
(* Output classifier.                                                      *)
(***************************************************************************)
\* a chain that looks for "Invalid command" before the authentication phrases
classify_stderr_invalid_first(stderr) ==
    IF contains(stderr, ErrCommandNotSupported) THEN "CommandNotSupported"
    ELSE IF contains(stderr, ErrInvalidCommand) THEN "InvalidState"
    ELSE IF contains(stderr, ErrInvalidUserName)
            \/ contains(stderr, ErrAuthenticationFailure)
    THEN "AuthenticationFailed"
    ELSE IF contains(stderr, ErrUnableToEstablish) THEN "ConnectionFailed"
    ELSE "UnknownError"

\* the if / else-if chain over stderr of a failed command
classify_stderr(stderr) ==
    IF contains(stderr, ErrCommandNotSupported) THEN "CommandNotSupported"
    ELSE IF contains(stderr, ErrInvalidUserName)
            \/ contains(stderr, ErrAuthenticationFailure)
    THEN "AuthenticationFailed"
    ELSE IF contains(stderr, ErrUnableToEstablish) THEN "ConnectionFailed"
    ELSE IF contains(stderr, ErrInvalidCommand) THEN "InvalidState"
    ELSE "UnknownError"

\* the match over the trimmed stdout of a successful command
classify_stdout(output) ==
    CASE output = OutPowerIsOn -> Ok("On")
      [] output = OutPowerIsOff -> Ok("Off")
      [] output = OutControlUpOn -> Ok("On")
      [] output = OutControlDownOff -> Ok("Off")
      [] output = OutControlReset -> Ok("Reset")
      [] output = OutControlCycle -> Ok("Cycle")
      [] output = OutControlSoft -> Ok("Off")
      [] output = OutControlOn -> Ok("On")
      [] output = OutControlOff -> Ok("Off")
      [] OTHER -> Err("UnexpectedOutput")

\* power_action after the command has exited
classify(out) ==
    IF ~out.success
    THEN Err(classify_stderr(from_utf8_lossy(out.stderr)))
    ELSE classify_stdout(trim(from_utf8_lossy(out.stdout)))

(***************************************************************************)
(* Response mapping.                                                       *)
(***************************************************************************)
map_power_error_to_response(err) ==
    LET error_message ==
            CASE err = "CommandNotSupported" ->
                     "Command not supported in present state"
              [] err = "InvalidState" ->
                     "Invalid system state for this command"
              [] err = "AuthenticationFailed" -> "Authentication failed"
              [] err = "ConnectionFailed" ->
                     "Unable to connect to IPMI endpoint"
              [] err = "UnexpectedOutput" ->
                     "Unexpected response from IPMI endpoint"
              [] err = "UnknownError" -> "An unknown error occurred"
    IN  Response(500, <<"json", "error", error_message>>)

status_str(status) ==
    CASE status = "On" -> "on"
      [] status = "Off" -> "off"
      [] status = "Reset" -> "reset"
      [] status = "Cycle" -> "cycle"

\* a mapping that reports the classified status to control requests too
handle_power_action_result_always_status(result, context) ==
    IF result.ok
    THEN Response(200, <<"json", "status", status_str(result.val)>>)
    ELSE map_power_error_to_response(result.val)

\* context is "Status" or "Control" (ActionContext)
handle_power_action_result(result, context) ==
    IF result.ok
    THEN IF context = "Status"
         THEN Response(200, <<"json", "status", status_str(result.val)>>)
         ELSE Response(200, <<"text", "ok">>)
    ELSE map_power_error_to_response(result.val)

(***************************************************************************)
(* Configurations and request inputs the specifications draw from.         *)
(***************************************************************************)
Digits == <<"1", "2", "3", "4", "5", "6", "7", "8", "9">>

AdminUser == <<"a", "d", "m", "i", "n">>
AdminPass == <<"s", "3", "c", "r", "3", "t">>

Address(g, e) == <<"1", "0", ".", "0", ".", Digits[g], ".", Digits[e]>>

\* one group g1 with token t1 and the endpoints web1 and web2
ScenarioConfig ==
    Config(<<Group(<<"g", "1">>, "t1",
                   <<IpmiEndpoint("web1", Address(1, 1), AdminUser, AdminPass),
                     IpmiEndpoint("web2", Address(1, 2), AdminUser,
                                  AdminPass)>>)>>)

\* every configuration of at most MaxGroups groups with tokens t1, t2 and at
\* most MaxEndpoints endpoints named web1, web2 each: tokens may repeat
\* across groups and names may repeat inside and across groups; the address
\* tells the endpoints apart
ConfigTokens == {"t1", "t2"}
ConfigNames == {"web1", "web2"}

GroupShapes == [token : ConfigTokens, names : SeqsUpTo(ConfigNames, MaxEndpoints)]

MakeConfig(shape) ==
    Config([g \in 1..Len(shape) |->
        Group(<<"g", Digits[g]>>, shape[g].token,
              [e \in 1..Len(shape[g].names) |->
                  IpmiEndpoint(shape[g].names[e], Address(g, e),
                               AdminUser, AdminPass)])])

GeneratedConfigs == {MakeConfig(s) : s \in SeqsUpTo(GroupShapes, MaxGroups)}

\* one endpoint whose address, username and password are any non-empty text of at most
\* MaxFieldLen characters, shell metacharacters included
FieldChars == {"a", " ", "'", ";"}
FieldValues == SeqsUpTo(FieldChars, MaxFieldLen) \ {<<>>}

ShellConfigs ==
    {Config(<<Group(<<"g", "1">>, "t1", <<IpmiEndpoint("web1", a, u, p)>>)>>) :
        a \in FieldValues, u \in FieldValues, p \in FieldValues}

Methods == {"GET", "POST"}
RequestTokens == {"t1", "wrong"}
RequestEndpointIds == {"web1", "doesnotexist"}
RequestActions == {"on", "off", "reset", "cycle", "ON", "status"}

\* how the spawn of `sh` goes: it cannot be launched, it runs and exits, or
\* it runs and never exits
Launches == {"failed", "runs", "hangs"}

\* outputs of the tool
StatusOnOutput == Output(TRUE, OutPowerIsOn \o <<"\n">>, <<>>)
AuthFailureOutput ==
    Output(FALSE, <<>>, <<"E", "r", "r", "o", "r", ":", " ">>
                        \o ErrAuthenticationFailure \o <<"\n">>)
FewOutputs == {StatusOnOutput, AuthFailureOutput}

ErrPieces ==
    {ErrCommandNotSupported, ErrInvalidUserName, ErrAuthenticationFailure,
     ErrUnableToEstablish, ErrInvalidCommand,
     <<"I", "n", "v", "a", "l", "i", "d", " ">>, <<"x">>, <<" ">>}

OutPieces ==
    {OutPowerIsOn, OutPowerIsOff, OutControlUpOn, OutControlDownOff,
     OutControlReset, OutControlCycle, OutControlSoft, OutControlOn,
     OutControlOff, <<"x">>, <<" ">>, <<InvalidByte>>}

Stderrs == {Concat(ps) : ps \in SeqsUpTo(ErrPieces, MaxErrPieces)}

\* whitespace before and after the body
LeadPads == SeqsUpTo({"\t"}, MaxPad)
TrailPads == SeqsUpTo({"\r", "\n"}, MaxPad)

Stdouts ==
    {l \o Concat(ps) \o t :
        l \in LeadPads, t \in TrailPads,
        ps \in SeqsUpTo(OutPieces, MaxOutPieces)}

\* a failed exit with any stderr, or a successful exit with any stdout
ManyOutputs ==
    {Output(FALSE, o, e) : o \in {<<>>, OutPowerIsOn}, e \in Stderrs}
        \cup {Output(TRUE, o, e) :
                o \in Stdouts, e \in {<<>>, ErrAuthenticationFailure}}

(***************************************************************************)
(* State.  Every variable but config maps a request slot to its part of    *)
(* the request-scoped values.                                              *)
(***************************************************************************)
VARIABLES
    config,     \* the Config loaded at startup, the router's state
    pc,         \* "idle", "queued", "blocked", "responded", "panicked"
    request,    \* Option: method, token, endpoint_id, action of the request
    endpoint,   \* Option: the endpoint the token and name resolved to
    spawned,    \* the spawns of this request: command line and launch
    output,     \* Option: the Output the command exited with
    result,     \* Option: the classification of the output
    response    \* the responses sent for this request

vars == <<config, pc, request, endpoint, spawned, output, result, response>>

\* worker threads that sit in the blocking Command::output call
Busy == Cardinality({r \in Reqs : pc[r] = "blocked"})

NoRequests ==
    /\ pc = [r \in Reqs |-> "idle"]
    /\ request = [r \in Reqs |-> <<>>]
    /\ endpoint = [r \in Reqs |-> <<>>]
    /\ spawned = [r \in Reqs |-> <<>>]
    /\ output = [r \in Reqs |-> <<>>]
    /\ result = [r \in Reqs |-> <<>>]
    /\ response = [r \in Reqs |-> <<>>]

\* main: the configuration is read, the routes are installed
Init == config = ScenarioConfig /\ NoRequests

InitResolve == config \in GeneratedConfigs /\ NoRequests

InitShell == config \in ShellConfigs /\ NoRequests

(***************************************************************************)
(* Operations.                                                             *)
(***************************************************************************)
\* a request arrives on one of the two routes of /power/:endpoint_id and its
\* extractors (AuthBearer, Path, Json) succeed; GET has no body
Receive(r, method, token, endpoint_id, action) ==
    /\ pc[r] = "idle"
    /\ pc' = [pc EXCEPT ![r] = "queued"]
    /\ request' = [request EXCEPT ![r] =
          <<[method |-> method, token |-> token, endpoint_id |-> endpoint_id,
             payload |-> PowerControlMsg(IF method = "GET" THEN ""
                                         ELSE action)]>>]
    /\ UNCHANGED <<config, endpoint, spawned, output, result, response>>

\* the handler returns a response
Reply(r, resp) ==
    /\ pc' = [pc EXCEPT ![r] = "responded"]
    /\ response' = [response EXCEPT ![r] = Append(@, resp)]

\* power_action up to Command::output: the command line is composed and
\* `sh` is spawned.  When the spawn fails, expect() panics and the task
\* of the request unwinds without a response; otherwise the worker thread
\* blocks in output() until the command exits.
power_action(r, action, e, launch) ==
    /\ spawned' = [spawned EXCEPT ![r] =
          Append(@, [command |-> command_line(action, e), launch |-> launch])]
    /\ pc' = [pc EXCEPT ![r] = IF launch = "failed" THEN "panicked"
                               ELSE "blocked"]
    /\ UNCHANGED response

\* GET /power/:endpoint_id, polled by a free worker thread
get_power_status(r, launch) ==
    /\ pc[r] = "queued"
    /\ request[r][1].method = "GET"
    /\ Busy < Workers
    /\ LET req == request[r][1]
           res == get_endpoint_from_token(config, req.token, req.endpoint_id)
       IN  /\ endpoint' = [endpoint EXCEPT ![r] = res.endpoint]
           /\ IF ~res.ok
              THEN Reply(r, res.response) /\ UNCHANGED spawned
              ELSE power_action(r, "Status", res.endpoint[1], launch)
    /\ UNCHANGED <<config, request, output, result>>

\* POST /power/:endpoint_id, polled by a free worker thread
power_control(r, launch) ==
    /\ pc[r] = "queued"
    /\ request[r][1].method = "POST"
    /\ Busy < Workers
    /\ LET req == request[r][1]
           res == get_endpoint_from_token(config, req.token, req.endpoint_id)
           action == parse_action(req.payload.action)
       IN  /\ endpoint' = [endpoint EXCEPT ![r] = res.endpoint]
           /\ IF ~res.ok
              THEN Reply(r, res.response) /\ UNCHANGED spawned
              ELSE IF action = <<>>
              THEN /\ Reply(r, Response(400, <<"text", "Invalid action">>))
                   /\ UNCHANGED spawned
              ELSE power_action(r, action[1], res.endpoint[1], launch)
    /\ UNCHANGED <<config, request, output, result>>

\* the command exits with one of the given outputs: the rest of power_action
\* classifies the output and handle_power_action_result turns the
\* classification into the response
CommandExits(r, outputs) ==
    /\ pc[r] = "blocked"
    /\ spawned[r][Len(spawned[r])].launch = "runs"
    /\ \E out \in outputs :
        LET res == classify(out)
            context == IF request[r][1].method = "GET" THEN "Status"
                       ELSE "Control"
        IN  /\ output' = [output EXCEPT ![r] = <<out>>]
            /\ result' = [result EXCEPT ![r] = <<res>>]
            /\ Reply(r, handle_power_action_result(res, context))
    /\ UNCHANGED <<config, request, endpoint, spawned>>

\* the request is over: its request-scoped values are dropped
Close(r) ==
    /\ pc[r] \in {"responded", "panicked"}
    /\ pc' = [pc EXCEPT ![r] = "idle"]
    /\ request' = [request EXCEPT ![r] = <<>>]
    /\ endpoint' = [endpoint EXCEPT ![r] = <<>>]
    /\ spawned' = [spawned EXCEPT ![r] = <<>>]
    /\ output' = [output EXCEPT ![r] = <<>>]
    /\ result' = [result EXCEPT ![r] = <<>>]
    /\ response' = [response EXCEPT ![r] = <<>>]
    /\ UNCHANGED config

(***************************************************************************)
(* Specifications.                                                         *)
(***************************************************************************)
\* concurrent requests against the scenario configuration
Next ==
    \/ \E r \in Reqs, m \in Methods, t \in RequestTokens,
          e \in {"web1", "web2", "doesnotexist"}, a \in {"cycle", "bogus"} :
            Receive(r, m, t, e, a)
    \/ \E r \in Reqs, l \in Launches : get_power_status(r, l)
    \/ \E r \in Reqs, l \in Launches : power_control(r, l)
    \/ \E r \in Reqs : CommandExits(r, FewOutputs)
    \/ \E r \in Reqs : Close(r)

Spec == Init /\ [][Next]_vars

\* concurrent authorized requests whose commands exit or hang
NextLive ==
    \/ \E r \in Reqs, m \in Methods, e \in {"web1", "web2"} :
          Receive(r, m, "t1", e, "cycle")
    \/ \E r \in Reqs, l \in {"runs", "hangs"} : get_power_status(r, l)
    \/ \E r \in Reqs, l \in {"runs", "hangs"} : power_control(r, l)
    \/ \E r \in Reqs : CommandExits(r, {StatusOnOutput})
    \/ \E r \in Reqs : Close(r)

\* the runtime polls a task that is ready again and again, and a command
\* that runs exits
Fairness ==
    \A r \in Reqs :
        /\ SF_vars(\E l \in {"runs", "hangs"} : get_power_status(r, l))
        /\ SF_vars(\E l \in {"runs", "hangs"} : power_control(r, l))
        /\ WF_vars(CommandExits(r, {StatusOnOutput}))

LiveSpec == Init /\ [][NextLive]_vars /\ Fairness

\* one request at a time against every generated configuration
NextResolve ==
    \/ \E m \in Methods, t \in RequestTokens, e \in RequestEndpointIds,
          a \in RequestActions : Receive(1, m, t, e, a)
    \/ \E l \in {"failed", "runs"} : get_power_status(1, l)
    \/ \E l \in {"failed", "runs"} : power_control(1, l)
    \/ CommandExits(1, {StatusOnOutput})
    \/ Close(1)

ResolveSpec == InitResolve /\ [][NextResolve]_vars

\* one authorized request at a time, the tool answering with any output
NextClassify ==
    \/ \E m \in Methods, a \in {"on", "off", "reset", "cycle"} :
          Receive(1, m, "t1", "web1", a)
    \/ get_power_status(1, "runs")
    \/ power_control(1, "runs")
    \/ CommandExits(1, ManyOutputs)
    \/ Close(1)

ClassifySpec == Init /\ [][NextClassify]_vars

\* one authorized request at a time against an endpoint with any fields
NextShell ==
    \/ \E m \in Methods, a \in {"on", "off", "reset", "cycle"} :
          Receive(1, m, "t1", "web1", a)
    \/ get_power_status(1, "runs")
    \/ power_control(1, "runs")
    \/ CommandExits(1, FewOutputs)
    \/ Close(1)

ShellSpec == InitShell /\ [][NextShell]_vars

(***************************************************************************)
(* Properties.                                                             *)
(***************************************************************************)
\* C1: a request whose token equals the token of no configured group is
\* never passed to the external tool, whatever its method and endpoint
\* name, and the response it gets is 401.
C1_UnknownTokenIsUnauthorized ==
    \A r \in Reqs :
        (/\ request[r] # <<>>
         /\ \A g \in 1..Len(config.groups) :
                config.groups[g].token # request[r][1].token)
        => /\ spawned[r] = <<>>
           /\ pc[r] \in {"queued", "responded"}
           /\ pc[r] = "responded" =>
                /\ Len(response[r]) = 1
                /\ response[r][1].status = 401

\* a POST with a valid action for an endpoint name that a configured group
\* holds, under a token of no group, has been answered
C1_Witness ==
    \E r \in Reqs :
        /\ pc[r] = "responded"
        /\ request[r][1].method = "POST"
        /\ request[r][1].payload.action = "on"
        /\ \A g \in 1..Len(config.groups) :
                config.groups[g].token # request[r][1].token
        /\ \E g \in 1..Len(config.groups) :
                \E e \in 1..Len(config.groups[g].endpoints) :
                    config.groups[g].endpoints[e].name = request[r][1].endpoint_id
        /\ response[r][1].status = 401

\* C2: a request whose token matches a group is resolved against the first
\* group carrying that token and no other: a name that group does not hold
\* gets 404 and no invocation, a name it holds resolves to its first
\* endpoint of that name, which is the one the command line addresses.
C2_FirstMatchingGroupOnly ==
    \A r \in Reqs :
        \A g \in 1..Len(config.groups) :
            (/\ request[r] # <<>>
             /\ config.groups[g].token = request[r][1].token
             /\ \A h \in 1..(g - 1) :
                    config.groups[h].token # request[r][1].token)
            => LET eps == config.groups[g].endpoints
                   named == {e \in 1..Len(eps) :
                                eps[e].name = request[r][1].endpoint_id}
               IN  IF named = {}
                   THEN /\ spawned[r] = <<>>
                        /\ pc[r] \in {"queued", "responded"}
                        /\ pc[r] = "responded" =>
                             /\ Len(response[r]) = 1
                             /\ response[r][1].status = 404
                   ELSE \E e \in named :
                        /\ \A f \in named : e <= f
                        /\ pc[r] # "queued" => endpoint[r] = <<eps[e]>>
                        /\ \A i \in 1..Len(spawned[r]) :
                             contains(spawned[r][i].command,
                                      <<"-", "H", " ">> \o Address(g, e)
                                          \o <<" ">>)

\* the name is missing from the first group with the token and present in a
\* later group with the same token, and the request got its 404
C2_Witness ==
    \E r \in Reqs :
        /\ pc[r] = "responded"
        /\ Len(config.groups) = 2
        /\ config.groups[1].token = request[r][1].token
        /\ config.groups[2].token = request[r][1].token
        /\ \A e \in 1..Len(config.groups[1].endpoints) :
              config.groups[1].endpoints[e].name # request[r][1].endpoint_id
        /\ \E e \in 1..Len(config.groups[2].endpoints) :
              config.groups[2].endpoints[e].name = request[r][1].endpoint_id
        /\ response[r][1].status = 404
        /\ spawned[r] = <<>>

\* C3 as stated: every answered control request whose action is not one of
\* on, off, reset, cycle got 400, and the tool was not invoked for it.
C3_InvalidActionIsBadRequest ==
    \A r \in Reqs :
        (/\ request[r] # <<>>
         /\ request[r][1].method = "POST"
         /\ request[r][1].payload.action \notin {"on", "off", "reset", "cycle"})
        => /\ spawned[r] = <<>>
           /\ pc[r] = "responded" =>
                /\ Len(response[r]) = 1
                /\ response[r][1].status = 400

\* C3 amended: a control request whose action is not one of on, off, reset,
\* cycle never reaches the tool; it gets 400 when its token matches a group
\* and its endpoint name is in the first such group, and otherwise the 401
\* or 404 of the check that fails first.
C3_InvalidActionNeverInvoked ==
    \A r \in Reqs :
        (/\ request[r] # <<>>
         /\ request[r][1].method = "POST"
         /\ request[r][1].payload.action \notin {"on", "off", "reset", "cycle"})
        => /\ spawned[r] = <<>>
           /\ pc[r] \in {"queued", "responded"}
           /\ pc[r] = "responded" =>
                /\ Len(response[r]) = 1
                /\ LET tok == request[r][1].token
                       groups == {g \in 1..Len(config.groups) :
                                     config.groups[g].token = tok}
                   IN  IF groups = {}
                       THEN response[r][1].status = 401
                       ELSE IF \A e \in 1..Len(config.groups[Min(groups)].endpoints) :
                                  config.groups[Min(groups)].endpoints[e].name
                                      # request[r][1].endpoint_id
                       THEN response[r][1].status = 404
                       ELSE response[r][1].status = 400

\* an authorized control request for a known endpoint with the action "ON"
\* got its 400
C3_Witness ==
    \E r \in Reqs :
        /\ pc[r] = "responded"
        /\ request[r][1].method = "POST"
        /\ request[r][1].payload.action = "ON"
        /\ endpoint[r] # <<>>
        /\ response[r] = <<Response(400, <<"text", "Invalid action">>)>>
        /\ spawned[r] = <<>>

\* C4: when `sh` cannot be launched for a request, the request is answered
\* with the UnknownError response: 500 and the fixed UnknownError message.
C4_LaunchFailureIsUnknownError ==
    \A r \in Reqs :
        (/\ spawned[r] # <<>>
         /\ spawned[r][Len(spawned[r])].launch = "failed")
        => /\ pc[r] = "responded"
           /\ response[r] =
                <<Response(500, <<"json", "error", "An unknown error occurred">>)>>

\* C5: a request that waits for a worker thread is eventually answered,
\* unless its own command is the one that never exits or cannot be launched,
\* however many other requests sit in their invocation.
C5_SlowInvocationStallsNoOther ==
    \A r \in Reqs :
        (pc[r] = "queued")
            ~> \/ pc[r] = "responded"
               \/ /\ pc[r] \in {"blocked", "panicked"}
                  /\ spawned[r][Len(spawned[r])].launch \in {"hangs", "failed"}

\* C10: what holds of every request at every moment: the tool is invoked at
\* most once, only for a token that matches a group, an endpoint name of the
\* first such group and, on POST, a valid action; classification follows
\* invocation; a request refused before invocation got the response of the
\* first check it fails, in the order token, endpoint, action; and a request
\* that is over has exactly one response.
C10_PipelineOfRequest(r) ==
    LET req == request[r][1]
        groups == {g \in 1..Len(config.groups) :
                      config.groups[g].token = req.token}
        eps == config.groups[Min(groups)].endpoints
        authorized == /\ groups # {}
                      /\ \E e \in 1..Len(eps) : eps[e].name = req.endpoint_id
        valid == \/ req.method = "GET"
                 \/ req.payload.action \in {"on", "off", "reset", "cycle"}
    IN  /\ Len(spawned[r]) <= 1
        /\ Len(response[r]) <= 1
        /\ pc[r] \in {"idle", "queued"} =>
              spawned[r] = <<>> /\ result[r] = <<>> /\ response[r] = <<>>
        /\ spawned[r] # <<>> => request[r] # <<>> /\ authorized /\ valid
        /\ result[r] # <<>> =>
              /\ spawned[r] # <<>>
              /\ output[r] # <<>>
              /\ response[r] # <<>>
        /\ (pc[r] = "responded" /\ spawned[r] = <<>>) =>
              response[r][1].status =
                  IF groups = {} THEN 401
                  ELSE IF ~authorized THEN 404
                  ELSE 400
        /\ (pc[r] = "responded" /\ spawned[r] = <<>>) => ~(authorized /\ valid)
        /\ pc[r] \in {"responded", "panicked"} => Len(response[r]) = 1

\* C10: every request moves through the pipeline in order and ends in
\* exactly one response, and no step changes the configuration.
C10_PipelineInOrder ==
    /\ [](\A r \in Reqs : C10_PipelineOfRequest(r))
    /\ [][config' = config]_vars

\* C6: after a failed exit the classification is the error of the first
\* phrase, in the order CommandNotSupported, AuthenticationFailed (either of
\* its two phrases), ConnectionFailed, InvalidState, that stderr contains,
\* and UnknownError when it contains none; stdout plays no part and the
\* result is never a PowerStatus.
C6_StderrPrecedence ==
    \A r \in Reqs :
        (output[r] # <<>> /\ ~output[r][1].success)
        => LET stderr == output[r][1].stderr
               notSupported == contains(stderr, ErrCommandNotSupported)
               authentication == \/ contains(stderr, ErrInvalidUserName)
                                 \/ contains(stderr, ErrAuthenticationFailure)
               connection == contains(stderr, ErrUnableToEstablish)
               invalid == contains(stderr, ErrInvalidCommand)
           IN  /\ Len(result[r]) = 1
               /\ ~result[r][1].ok
               /\ notSupported => result[r][1].val = "CommandNotSupported"
               /\ (~notSupported /\ authentication) =>
                     result[r][1].val = "AuthenticationFailed"
               /\ (~notSupported /\ ~authentication /\ connection) =>
                     result[r][1].val = "ConnectionFailed"
               /\ (~notSupported /\ ~authentication /\ ~connection /\ invalid) =>
                     result[r][1].val = "InvalidState"
               /\ (~notSupported /\ ~authentication /\ ~connection /\ ~invalid) =>
                     result[r][1].val = "UnknownError"

\* a failed exit whose stderr holds "Invalid command" and, after it,
\* "authentication failure", and whose stdout is a known status phrase
C6_Witness ==
    \E r \in Reqs :
        /\ output[r] # <<>>
        /\ ~output[r][1].success
        /\ output[r][1].stdout = OutPowerIsOn
        /\ output[r][1].stderr = ErrInvalidCommand \o ErrAuthenticationFailure
        /\ result[r] = <<Err("AuthenticationFailed")>>

\* C7: after a successful exit the classification is the status of the one
\* known phrase that stdout equals once the whitespace around it is removed,
\* and UnexpectedOutput when there is no such phrase; stderr, the requested
\* action and earlier requests play no part.
C7_StdoutExactMatch ==
    \A r \in Reqs :
        (output[r] # <<>> /\ output[r][1].success)
        => LET stdout == output[r][1].stdout
               surrounded(p) ==
                   \E i \in 1..(Len(stdout) - Len(p) + 1) :
                       /\ stdout[i] = p[1]
                       /\ \A k \in 1..(i - 1) : stdout[k] \in WhiteSpace
                       /\ SubSeq(stdout, i, i + Len(p) - 1) = p
                       /\ \A k \in (i + Len(p))..Len(stdout) :
                              stdout[k] \in WhiteSpace
               on == {OutPowerIsOn, OutControlUpOn, OutControlOn}
               off == {OutPowerIsOff, OutControlDownOff, OutControlOff,
                       OutControlSoft}
           IN  /\ Len(result[r]) = 1
               /\ (\E p \in on : surrounded(p)) => result[r][1] = Ok("On")
               /\ (\E p \in off : surrounded(p)) => result[r][1] = Ok("Off")
               /\ surrounded(OutControlReset) => result[r][1] = Ok("Reset")
               /\ surrounded(OutControlCycle) => result[r][1] = Ok("Cycle")
               /\ (\A p \in on \cup off \cup {OutControlReset, OutControlCycle} :
                      ~surrounded(p))
                  => result[r][1] = Err("UnexpectedOutput")

\* a request to switch on whose command exits successfully with the soft-off
\* phrase between whitespace and with a trigger phrase on stderr
C7_Witness ==
    \E r \in Reqs :
        /\ output[r] # <<>>
        /\ output[r][1].success
        /\ request[r][1].payload.action = "on"
        /\ output[r][1].stdout = <<" ">> \o OutControlSoft \o <<"\n">>
        /\ output[r][1].stderr = ErrAuthenticationFailure
        /\ result[r] = <<Ok("Off")>>

\* C8: the response of an invoked request is fixed by the classification
\* and the kind of request: a status on GET gives 200 and {status: name}, a
\* status on POST gives 200 and "ok", an error gives 500 and {error: m} with
\* the one message of that error.
C8_ResponseFromClassification ==
    \A r \in Reqs :
        result[r] # <<>>
        => LET name == [s \in PowerStatuses |->
                          CASE s = "On" -> "on" [] s = "Off" -> "off"
                            [] s = "Reset" -> "reset" [] s = "Cycle" -> "cycle"]
               message == [e \in PowerErrors |->
                   CASE e = "CommandNotSupported" ->
                            "Command not supported in present state"
                     [] e = "InvalidState" ->
                            "Invalid system state for this command"
                     [] e = "AuthenticationFailed" -> "Authentication failed"
                     [] e = "ConnectionFailed" ->
                            "Unable to connect to IPMI endpoint"
                     [] e = "UnexpectedOutput" ->
                            "Unexpected response from IPMI endpoint"
                     [] e = "UnknownError" -> "An unknown error occurred"]
               res == result[r][1]
           IN  /\ Len(response[r]) = 1
               /\ (res.ok /\ request[r][1].method = "GET") =>
                     /\ res.val \in PowerStatuses
                     /\ response[r][1] =
                          [status |-> 200,
                           body |-> <<"json", "status", name[res.val]>>]
               /\ (res.ok /\ request[r][1].method = "POST") =>
                     response[r][1] = [status |-> 200, body |-> <<"text", "ok">>]
               /\ ~res.ok =>
                     /\ res.val \in PowerErrors
                     /\ response[r][1] =
                          [status |-> 500,
                           body |-> <<"json", "error", message[res.val]>>]

\* a request to switch on whose command reports that the power is off
C8_Witness ==
    \E r \in Reqs :
        /\ request[r] # <<>>
        /\ request[r][1].method = "POST"
        /\ request[r][1].payload.action = "on"
        /\ result[r] = <<Ok("Off")>>
        /\ response[r] = <<[status |-> 200, body |-> <<"text", "ok">>]>>

\* C9: the shell runs exactly one command for a request, ipmitool with the
\* arguments -I lanplus -H address -U username -P password power action,
\* each field as one argument, whatever the fields contain.
C9_OneCommandFieldsVerbatim ==
    \A r \in Reqs :
        \A i \in 1..Len(spawned[r]) :
            sh_c(spawned[r][i].command) =
                [err |-> FALSE,
                 cmds |-> << <<
                    <<"i", "p", "m", "i", "t", "o", "o", "l">>,
                    <<"-", "I">>,
                    <<"l", "a", "n", "p", "l", "u", "s">>,
                    <<"-", "H">>, endpoint[r][1].ipmi_address,
                    <<"-", "U">>, endpoint[r][1].username,
                    <<"-", "P">>, endpoint[r][1].password,
                    <<"p", "o", "w", "e", "r">>,
                    IF request[r][1].method = "GET"
                    THEN <<"s", "t", "a", "t", "u", "s">>
                    ELSE CASE request[r][1].payload.action = "on" -> <<"o", "n">>
                           [] request[r][1].payload.action = "off" ->
                                  <<"o", "f", "f">>
                           [] request[r][1].payload.action = "reset" ->
                                  <<"r", "e", "s", "e", "t">>
                           [] request[r][1].payload.action = "cycle" ->
                                  <<"c", "y", "c", "l", "e">> >> >>]

====
